---- MODULE Spec2Model ----
(***************************************************************************)
(* flight_agent.py: a single-run batch job that walks a grid of            *)
(* (outbound date, return date) pairs, quotes each leg once through a      *)
(* per-run cache, picks the cheapest offer of each leg under a stop-count  *)
(* preference, collects combined rows, notifies about the cheapest row     *)
(* under a threshold and writes a snapshot file.                           *)
(*                                                                         *)
(* Dates are day offsets from date.today() (today = 0).  Money is counted  *)
(* in thousandths of a dollar: float(total_amount) parses the upstream     *)
(* decimal string, and round(total, 2) rounds to the nearest cent.         *)
(***************************************************************************)
EXTENDS Integers, Sequences, FiniteSets, TLC

------------------------------------------------------------------------------
(* Settings (module-level constants of flight_agent.py)                     *)

ORIGIN == "ORD"
DEST == "LHR"
CURRENCY == "USD"
\* THRESHOLD = 2500.00, in thousandths of a dollar
THRESHOLD == 2500000
START_DAYS_OUT == 14
END_DAYS_OUT == 28
MIN_TRIP_DAYS == 3
MAX_TRIP_DAYS == 14
PREFER_NONSTOP == TRUE
MAX_STOPS_PREFERRED == 0
MAX_STOPS_FALLBACK == 1

\* Python's None: an absent quote, an unset exception, a file not written.
None == [absent |-> TRUE]

Max(a, b) == IF a >= b THEN a ELSE b
Min(a, b) == IF a <= b THEN a ELSE b

------------------------------------------------------------------------------
(* Offers and the selection policy                                          *)

\* An upstream decimal string "w.fff" is the pair of its whole part and its
\* three fraction digits; a string with two decimals has fff = dd0.
Dec(w, f) == [whole |-> w, frac |-> f]

\* float(o["total_amount"]): the value of the decimal string, in thousandths.
float(s) == s.whole * 1000 + s.frac

\* round(total, 2): to the nearest cent, an exact half to the even cent.
round2(t) ==
    LET q == t \div 10
        r == t % 10
    IN  IF r < 5 THEN q * 10
        ELSE IF r > 5 THEN (q + 1) * 10
        ELSE IF q % 2 = 0 THEN q * 10 ELSE (q + 1) * 10

\* A raw offer: id, total_amount, total_currency and the segments of slices[0].
Offer(id, amount, cur, segs) ==
    [id |-> id, total_amount |-> amount, total_currency |-> cur, segments |-> segs]

\* offer_stops: number of segments - 1 of the first slice, never below 0.
offer_stops(o) == Max(Len(o.segments) - 1, 0)

\* [o for o in offers if o.get("total_currency") == CURRENCY], in list order.
usd_offers(offers) ==
    LET IsCur(o) == o.total_currency = CURRENCY IN SelectSeq(offers, IsCur)

\* Faulty variant, for sensitivity: a fallback that gives up when no offer is within MAX_STOPS_FALLBACK.
CandidatesNoLastTier(usd) ==
    LET Pref(o) == offer_stops(o) <= MAX_STOPS_PREFERRED
        Fall(o) == offer_stops(o) <= MAX_STOPS_FALLBACK
        preferred == SelectSeq(usd, Pref)
    IN  IF preferred # <<>> THEN preferred ELSE SelectSeq(usd, Fall)

\* The candidate list of cheapest_offer: preferred, else fallback, else all.
Candidates(usd) ==
    IF PREFER_NONSTOP
    THEN LET Pref(o) == offer_stops(o) <= MAX_STOPS_PREFERRED
             Fall(o) == offer_stops(o) <= MAX_STOPS_FALLBACK
             preferred == SelectSeq(usd, Pref)
             fallback == SelectSeq(usd, Fall)
         IN  IF preferred # <<>> THEN preferred
             ELSE IF fallback # <<>> THEN fallback
             ELSE usd
    ELSE usd

\* Faulty variant, for sensitivity: a comparison by which a later offer of equal price replaces the best.
ImprovesOrTies(amt, best) == best = None \/ amt <= best.amount

\* `best is None or amt < best["amount"]`
Improves(amt, best) == best = None \/ amt < best.amount

\* The loop over the candidates, from index i with the best so far.
RECURSIVE BestLoop(_, _, _)
BestLoop(cands, i, best) ==
    IF i > Len(cands) THEN best
    ELSE LET o == cands[i]
             amt == float(o.total_amount)
             s == offer_stops(o)
         IN  BestLoop(cands, i + 1,
                      IF Improves(amt, best)
                      THEN [amount |-> amt, offer_id |-> o.id, offer |-> o, stops |-> s]
                      ELSE best)

cheapest_offer(offers) ==
    LET usd == usd_offers(offers)
    IN  IF usd = <<>> THEN None ELSE BestLoop(Candidates(usd), 1, None)

------------------------------------------------------------------------------
(* The search window and the cache keys                                     *)

\* date.today(), the origin of the day offsets
today == 0
start == today + START_DAYS_OUT
end == today + END_DAYS_OUT

Dates == start .. end

\* The dates upstream can be asked about: no trip ends later.
Horizon == start .. end + MAX_TRIP_DAYS

\* key = (origin, dest, d.isoformat(), cabin); the ISO string of a date is
\* represented by the date's day offset (isoformat is one-to-one on dates).
OutKey(d) == <<ORIGIN, DEST, d, "business">>
RetKey(d) == <<DEST, ORIGIN, d, "premium_economy">>
Keys == {OutKey(d) : d \in Horizon} \cup {RetKey(d) : d \in Horizon}

\* Faulty variant, for sensitivity: a range out_date + MAX_TRIP_DAYS, not clamped to the window end.
RetMaxUnclamped(d) == d + MAX_TRIP_DAYS

\* ret_min and ret_max of an outbound date
RetMin(d) == d + MIN_TRIP_DAYS
RetMax(d) == Min(d + MAX_TRIP_DAYS, end)

\* Faulty variant, for sensitivity: a loop test that stops one day short of ret_max.
InnerStopsEarly(r, rmax) == r < rmax

\* `while ret_date <= ret_max`
InnerContinues(r, rmax) == r <= rmax

------------------------------------------------------------------------------
(* The upstream offer universe: what list_offers answers for each key.      *)
(* It is fixed for a run.  The outbound and the return answers are each     *)
(* drawn from a menu, separately for the early and the late dates of the    *)
(* window, so that absent quotes, totals under, at and over the threshold   *)
(* and sparse grids all occur.                                              *)

Segs(n) == [i \in 1 .. n |-> "seg"]

OutMenu ==
    { \* no offer in the configured currency: the quote is absent
      << Offer("out_eur", Dec(700, 0), "EUR", Segs(1)) >>,
      \* a cheaper 1-stop before the nonstop: the nonstop wins
      << Offer("out_1stop", Dec(1100, 0), "USD", Segs(2)),
         Offer("out_direct", Dec(1249, 998), "USD", Segs(1)) >>,
      \* no nonstop: the 1-stop wins over the cheaper 2-stop
      << Offer("out_2stop", Dec(1700, 0), "USD", Segs(3)),
         Offer("out_via", Dec(1800, 0), "USD", Segs(2)),
         Offer("out_eur0", Dec(500, 0), "EUR", Segs(1)) >> }

RetMenu ==
    { \* the empty answer: the quote is absent
      << >>,
      << Offer("ret_via", Dec(1249, 998), "USD", Segs(2)) >>,
      \* two offers of equal price
      << Offer("ret_a", Dec(900, 0), "USD", Segs(1)),
         Offer("ret_b", Dec(900, 0), "USD", Segs(1)) >> }

\* The late outbound dates have at most two return dates left; the late
\* return dates start at the window end.
LateOut(d) == d + MIN_TRIP_DAYS + 1 >= end
LateRet(d) == d >= end

Universes ==
    { [k \in Keys |->
          IF k[4] = "business"
          THEN (IF LateOut(k[3]) THEN oL ELSE oE)
          ELSE (IF LateRet(k[3]) THEN rL ELSE rE)] :
      oE \in OutMenu, oL \in OutMenu, rE \in RetMenu, rL \in RetMenu }

------------------------------------------------------------------------------
(* State                                                                    *)

VARIABLES
    universe,       \* upstream: the offer list of each key
    webhook,        \* whether SLACK_WEBHOOK_URL is set
    pc,             \* position of the run
    out_date, ret_date, ret_max,
    out_best, ret_best,
    one_way_cache, results, alerts,
    lookups,        \* best_one_way calls of this run, per key
    createCalls,    \* create_offer_request calls received upstream, per key
    listCalls,      \* list_offers calls received upstream, per key
    exc,            \* the exception that left main(): "none", "create", "list", "slack"
    notified,       \* the row handed to notify_slack, or None
    posts,          \* POSTs received by the notification channel
    snapshot,       \* latest_results.json as written by this run, or None
    outcome,        \* "running", "ok" (exit status 0) or "error" (traceback, status 1)
    run, prev,      \* which run of main() this is, and what the previous one produced
    selPc, selOffers, selBest   \* a single call of cheapest_offer

vars == << universe, webhook, pc, out_date, ret_date, ret_max, out_best, ret_best,
           one_way_cache, results, alerts, lookups, createCalls, listCalls, exc,
           notified, posts, snapshot, outcome, run, prev, selPc, selOffers, selBest >>

envVars == << universe, webhook >>
loopVars == << out_date, ret_date, ret_max >>
legVars == << out_best, ret_best >>
callVars == << lookups, createCalls, listCalls >>
outVars == << notified, posts, snapshot, outcome >>
runVars == << run, prev >>
selVars == << selPc, selOffers, selBest >>

NoCalls == [k \in Keys |-> 0]

\* The state of the process before main() is called.
Fresh ==
    /\ pc = "main"
    /\ out_date = start /\ ret_date = start /\ ret_max = start
    /\ out_best = None /\ ret_best = None
    /\ one_way_cache = << >> /\ results = << >> /\ alerts = << >>
    /\ lookups = NoCalls /\ createCalls = NoCalls /\ listCalls = NoCalls
    /\ exc = "none" /\ notified = None /\ posts = 0 /\ snapshot = None
    /\ outcome = "running"

Init ==
    /\ universe \in Universes
    /\ webhook \in BOOLEAN
    /\ Fresh
    /\ run = 1 /\ prev = None
    /\ selPc = "idle" /\ selOffers = << >> /\ selBest = None

------------------------------------------------------------------------------
(* main()                                                                   *)

\* Faulty variant, for sensitivity: an accumulator list that outlives the run (module-level).
StaleResults == results

\* `results = []` at the start of main()
FreshResults == << >>

\* main() up to the grid loop: empty cache, empty lists, out_date = start.
Begin ==
    /\ pc = "main"
    /\ one_way_cache' = << >>
    /\ results' = FreshResults
    /\ alerts' = << >>
    /\ out_date' = start
    /\ pc' = "outer"
    /\ UNCHANGED << envVars, ret_date, ret_max, legVars, callVars, exc, outVars,
                    runVars, selVars >>

\* `while out_date <= end`: the return range of the outbound date, or the end
\* of the grid.
OuterLoop ==
    /\ pc = "outer"
    /\ IF out_date <= end
       THEN /\ ret_max' = RetMax(out_date)
            /\ ret_date' = RetMin(out_date)
            /\ pc' = "inner"
       ELSE /\ pc' = "report"
            /\ UNCHANGED << ret_max, ret_date >>
    /\ UNCHANGED << envVars, out_date, legVars, one_way_cache, results, alerts,
                    callVars, exc, outVars, runVars, selVars >>

\* `while ret_date <= ret_max`: the next pair, or the next outbound date.
InnerLoop ==
    /\ pc = "inner"
    /\ IF InnerContinues(ret_date, ret_max)
       THEN pc' = "out_leg" /\ UNCHANGED out_date
       ELSE pc' = "outer" /\ out_date' = out_date + 1
    /\ UNCHANGED << envVars, ret_date, ret_max, legVars, one_way_cache, results,
                    alerts, callVars, exc, outVars, runVars, selVars >>

Bump(f, k) == [f EXCEPT ![k] = @ + 1]

\* Faulty variant, for sensitivity: a store in which an absent result is not remembered.
CacheStoreUnlessNone(cache, key, best) ==
    IF best = None THEN cache
    ELSE [k \in DOMAIN cache \cup {key} |-> IF k = key THEN best ELSE cache[k]]

\* `one_way_cache[key] = best`
CacheStore(cache, key, best) ==
    [k \in DOMAIN cache \cup {key} |-> IF k = key THEN best ELSE cache[k]]

\* The caller's assignment of the value best_one_way returns.
Return(leg, best) ==
    IF leg = "out"
    THEN out_best' = best /\ pc' = "ret_leg" /\ UNCHANGED ret_best
    ELSE ret_best' = best /\ pc' = "combine" /\ UNCHANGED out_best

\* An exception leaves main(): nothing after the raising call runs.
Raise(e) ==
    /\ exc' = e
    /\ pc' = "exit"

\* best_one_way(origin, dest, d, cabin) for the leg at hand: the stored result
\* on a hit; on a miss create_offer_request, list_offers, cheapest_offer and
\* the store.  Either upstream call may answer with a failure status, which
\* raise_for_status turns into an exception.
best_one_way(leg, key) ==
    /\ lookups' = Bump(lookups, key)
    /\ \/ /\ key \in DOMAIN one_way_cache
          /\ Return(leg, one_way_cache[key])
          /\ UNCHANGED << one_way_cache, createCalls, listCalls, exc >>
       \/ /\ key \notin DOMAIN one_way_cache
          /\ createCalls' = Bump(createCalls, key)
          /\ \/ \* both calls succeed
                /\ listCalls' = Bump(listCalls, key)
                /\ LET best == cheapest_offer(universe[key])
                   IN  /\ one_way_cache' = CacheStore(one_way_cache, key, best)
                       /\ Return(leg, best)
                /\ UNCHANGED exc
             \/ \* create_offer_request fails
                /\ Raise("create")
                /\ UNCHANGED << listCalls, one_way_cache, legVars >>
             \/ \* list_offers fails
                /\ listCalls' = Bump(listCalls, key)
                /\ Raise("list")
                /\ UNCHANGED << one_way_cache, legVars >>
    /\ UNCHANGED << envVars, loopVars, results, alerts, outVars, runVars, selVars >>

\* out_best = best_one_way(ORIGIN, DEST, out_date, "business")
OutLeg ==
    /\ pc = "out_leg"
    /\ best_one_way("out", OutKey(out_date))

\* ret_best = best_one_way(DEST, ORIGIN, ret_date, "premium_economy")
RetLeg ==
    /\ pc = "ret_leg"
    /\ best_one_way("ret", RetKey(ret_date))

\* The row of a pair whose two quotes are present.
Row(od, rd, ob, rb) ==
    [ out_date |-> od, ret_date |-> rd,
      out_usd |-> ob.amount, ret_usd |-> rb.amount,
      total_usd |-> round2(ob.amount + rb.amount),
      out_offer_id |-> ob.offer_id, ret_offer_id |-> rb.offer_id,
      out_offer |-> ob.offer, ret_offer |-> rb.offer,
      out_stops |-> ob.stops, ret_stops |-> rb.stops ]

\* `if out_best and ret_best`: append the row, and to alerts when the total
\* is under THRESHOLD; then `ret_date += 1`.
Combine ==
    /\ pc = "combine"
    /\ IF out_best # None /\ ret_best # None
       THEN LET total == out_best.amount + ret_best.amount
                row == Row(out_date, ret_date, out_best, ret_best)
            IN  /\ results' = Append(results, row)
                /\ alerts' = IF total < THRESHOLD THEN Append(alerts, row) ELSE alerts
       ELSE UNCHANGED << results, alerts >>
    /\ ret_date' = ret_date + 1
    /\ pc' = "inner"
    /\ UNCHANGED << envVars, out_date, ret_max, legVars, one_way_cache, callVars,
                    exc, outVars, runVars, selVars >>

------------------------------------------------------------------------------
(* Reporting, notification, snapshot                                        *)

\* list.sort(key=lambda x: x["total_usd"]): ascending and stable.  The row at
\* index i moves behind the rows with a smaller total and behind the rows
\* with an equal total that stood before it.
SortByTotal(s) ==
    LET n == Len(s)
        rank == [i \in 1 .. n |->
                    Cardinality({ j \in 1 .. n :
                        \/ s[j].total_usd < s[i].total_usd
                        \/ s[j].total_usd = s[i].total_usd /\ j < i }) + 1]
    IN  [p \in 1 .. n |-> s[CHOOSE i \in 1 .. n : rank[i] = p]]

\* results[:5]
Top5(s) == SubSeq(s, 1, Min(5, Len(s)))

\* `if alerts:`
AlertsFound == alerts # << >>

\* results.sort(), the top-5 printout, and, with alerts, alerts.sort().
Report ==
    /\ pc = "report"
    /\ results' = SortByTotal(results)
    /\ IF AlertsFound
       THEN alerts' = SortByTotal(alerts) /\ pc' = "notify"
       ELSE UNCHANGED alerts /\ pc' = "write"
    /\ UNCHANGED << envVars, loopVars, legVars, one_way_cache, callVars, exc,
                    outVars, runVars, selVars >>

\* Faulty variant, for sensitivity: a pick of the last row of the sorted alerts.
LastAlert(sorted) == sorted[Len(sorted)]

\* `best = alerts[0]` of the sorted alerts
CheapestAlert(sorted) == sorted[1]

\* The message about the best alert row and notify_slack(msg): a no-op
\* without SLACK_WEBHOOK_URL, else one POST, whose failure status
\* raise_for_status turns into an exception.
Notify ==
    /\ pc = "notify"
    /\ notified' = CheapestAlert(alerts)
    /\ \/ /\ ~webhook
          /\ pc' = "write"
          /\ UNCHANGED << posts, exc >>
       \/ /\ webhook
          /\ posts' = posts + 1
          /\ \/ pc' = "write" /\ UNCHANGED exc
             \/ Raise("slack")
    /\ UNCHANGED << envVars, loopVars, legVars, one_way_cache, results, alerts,
                    callVars, snapshot, outcome, runVars, selVars >>

\* json.dump({"generated": ..., "top5": results[:5], "alerts": alerts})
WriteSnapshot ==
    /\ pc = "write"
    /\ snapshot' = [generated |-> today, top5 |-> Top5(results), alerts |-> alerts]
    /\ pc' = "exit"
    /\ UNCHANGED << envVars, loopVars, legVars, one_way_cache, results, alerts,
                    callVars, exc, notified, posts, outcome, runVars, selVars >>

\* Faulty variant, for sensitivity: a handler in which the exception is printed and swallowed.
SwallowedOutcome(e) == "ok"

\* __main__: an exception of main() is printed and raised again.
TopLevelOutcome(e) == IF e = "none" THEN "ok" ELSE "error"

Exit ==
    /\ pc = "exit"
    /\ outcome' = TopLevelOutcome(exc)
    /\ pc' = "exited"
    /\ UNCHANGED << envVars, loopVars, legVars, one_way_cache, results, alerts,
                    callVars, exc, notified, posts, snapshot, runVars, selVars >>

Next ==
    \/ Begin
    \/ OuterLoop
    \/ InnerLoop
    \/ OutLeg
    \/ RetLeg
    \/ Combine
    \/ Report
    \/ Notify
    \/ WriteSnapshot
    \/ Exit

Spec == Init /\ [][Next]_vars

------------------------------------------------------------------------------
(* Two scheduled runs against the same upstream universe                    *)

MaxRuns == 2

\* What a completed run produced, without the generation date, and the
\* list_offers calls it made.
Produced ==
    [results |-> results, alerts |-> alerts,
     top5 |-> snapshot.top5, snapshot_alerts |-> snapshot.alerts,
     fetched |-> listCalls]

\* The job is invoked again after a completed run: a new process state, the
\* same configuration and upstream.  The locals of the earlier main() are
\* left as they are; Begin replaces them.
Rerun ==
    /\ pc = "exited"
    /\ outcome = "ok"
    /\ run < MaxRuns
    /\ prev' = Produced
    /\ run' = run + 1
    /\ pc' = "main"
    /\ out_date' = start /\ ret_date' = start /\ ret_max' = start
    /\ out_best' = None /\ ret_best' = None
    /\ lookups' = NoCalls /\ createCalls' = NoCalls /\ listCalls' = NoCalls
    /\ exc' = "none" /\ notified' = None /\ posts' = 0 /\ snapshot' = None
    /\ outcome' = "running"
    /\ UNCHANGED << envVars, one_way_cache, results, alerts, selVars >>

NextTwice == Next \/ Rerun

SpecTwice == Init /\ [][NextTwice]_vars

------------------------------------------------------------------------------
(* A single call of cheapest_offer on an arbitrary offer list               *)

MaxOffers == 3
MaxSegments == 3

SelAmounts == { Dec(900, 0), Dec(899, 990) }

\* The offer lists of up to MaxOffers offers; the id of an offer is its
\* position in the list.
SelShapes ==
    [cur : {"USD", "EUR"}, nsegs : 0 .. MaxSegments, amount : SelAmounts]

SelList(n, f) == [i \in 1 .. n |-> Offer(i, f[i].amount, f[i].cur, Segs(f[i].nsegs))]

InitSel ==
    /\ universe = [k \in Keys |-> << >>]
    /\ webhook = FALSE
    /\ Fresh
    /\ run = 1 /\ prev = None
    /\ selPc = "call" /\ selBest = None
    /\ \E n \in 0 .. MaxOffers : \E f \in [1 .. n -> SelShapes] : selOffers = SelList(n, f)

Select ==
    /\ selPc = "call"
    /\ selBest' = cheapest_offer(selOffers)
    /\ selPc' = "returned"
    /\ UNCHANGED << envVars, pc, loopVars, legVars, one_way_cache, results, alerts,
                    callVars, exc, outVars, runVars, selOffers >>

NextSel == Select

SpecSel == InitSel /\ [][NextSel]_vars

------------------------------------------------------------------------------
(* Properties                                                               *)

Rows(s) == { s[i] : i \in DOMAIN s }

UpstreamFailed == exc \in {"create", "list"}

\* The grid loop has run to its end.
GridDone == pc \in {"report", "notify", "write", "exit", "exited"} /\ ~UpstreamFailed

\* The quote of a key as the upstream universe determines it.
Quote(k) == cheapest_offer(universe[k])

\* C1: in a run, every key is fetched upstream (create_offer_request, then
\* list_offers) at most once; what the first best_one_way call of a key
\* computed is stored, also when it is absent, and every later call of the
\* key returns the stored result with no upstream call.
C1_FetchAtMostOncePerKey ==
    /\ \A k \in Keys :
          /\ createCalls[k] <= 1
          /\ listCalls[k] <= createCalls[k]
          /\ k \in DOMAIN one_way_cache =>
                /\ listCalls[k] = 1
                /\ one_way_cache[k] = Quote(k)
          /\ lookups[k] >= 2 => k \in DOMAIN one_way_cache
    /\ pc \in {"ret_leg", "combine"} =>
          /\ OutKey(out_date) \in DOMAIN one_way_cache
          /\ out_best = one_way_cache[OutKey(out_date)]
    /\ pc = "combine" =>
          /\ RetKey(ret_date) \in DOMAIN one_way_cache
          /\ ret_best = one_way_cache[RetKey(ret_date)]

\* A key with an absent result and a key with a present result were each
\* looked up again after their single fetch.
C1_Witness ==
    /\ \E k \in Keys :
          lookups[k] >= 2 /\ listCalls[k] = 1 /\ one_way_cache[k] = None
    /\ \E k \in Keys :
          lookups[k] >= 2 /\ listCalls[k] = 1 /\ one_way_cache[k] # None

\* C2: every row of results has its outbound date in the window, a trip
\* length between MIN_TRIP_DAYS and MAX_TRIP_DAYS, and a return date not
\* after the window end.
C2_RowsWithinWindowAndTripBounds ==
    \A r \in Rows(results) :
        /\ start <= r.out_date /\ r.out_date <= end
        /\ MIN_TRIP_DAYS <= r.ret_date - r.out_date
        /\ r.ret_date - r.out_date <= MAX_TRIP_DAYS
        /\ r.ret_date <= end

\* Rows of the shortest trip, of the longest trip, and of a return range cut
\* by the window end have been produced.
C2_Witness ==
    /\ \E r \in Rows(results) : r.ret_date - r.out_date = MIN_TRIP_DAYS
    /\ \E r \in Rows(results) : r.ret_date - r.out_date = MAX_TRIP_DAYS
    /\ \E r \in Rows(results) :
          r.ret_date = end /\ r.out_date + MAX_TRIP_DAYS > end

\* The pairs of the grid, and those whose two quotes are present.
GridPairs ==
    { p \in Dates \X Dates :
        /\ p[1] + MIN_TRIP_DAYS <= p[2]
        /\ p[2] <= Min(p[1] + MAX_TRIP_DAYS, end) }

QuotedPairs ==
    { p \in GridPairs : Quote(OutKey(p[1])) # None /\ Quote(RetKey(p[2])) # None }

\* C10: when no upstream call fails, after the grid loop results holds
\* exactly one row for every pair of the grid whose outbound and return
\* quotes are both present, and no other row.
C10_GridComplete ==
    GridDone =>
        /\ { << r.out_date, r.ret_date >> : r \in Rows(results) } = QuotedPairs
        /\ Len(results) = Cardinality(QuotedPairs)

\* The loop ended with rows, having skipped pairs with an absent leg before
\* and after pairs that gave a row, and outbound dates with an empty range.
C10_Witness ==
    /\ pc = "report" /\ exc = "none"
    /\ results # << >>
    /\ \E p \in GridPairs \ QuotedPairs, r \in Rows(results) : p[1] < r.out_date
    /\ \E p \in GridPairs \ QuotedPairs, r \in Rows(results) : p[1] > r.out_date
    /\ \E d \in Dates : RetMin(d) > RetMax(d)

\* C5: after the grid loop, alerts holds exactly the rows of results whose
\* stored total_usd is under THRESHOLD.
C5_AlertsAreRowsUnderThreshold ==
    GridDone =>
        Rows(alerts) = { r \in Rows(results) : r.total_usd < THRESHOLD }

\* C6: a run whose notification delivery failed has still written its
\* snapshot when it ends.
C6_SnapshotDespiteDeliveryFailure ==
    (pc = "exited" /\ exc = "slack") => snapshot # None

\* C7: once an upstream call has failed, no further upstream call is made,
\* no notification is attempted or sent, no snapshot is written, and the run
\* ends with the failure outcome.
C7_UpstreamFailureAborts ==
    /\ [](UpstreamFailed =>
            /\ pc \in {"exit", "exited"}
            /\ notified = None /\ posts = 0 /\ snapshot = None
            /\ (pc = "exited" => outcome = "error"))
    /\ [][UpstreamFailed =>
            /\ exc' = exc
            /\ lookups' = lookups
            /\ createCalls' = createCalls
            /\ listCalls' = listCalls
            /\ posts' = posts /\ snapshot' = snapshot]_vars

\* A run ended in failure after list_offers failed, with rows already
\* collected and other keys already fetched.
C7_Witness ==
    /\ pc = "exited" /\ exc = "list" /\ outcome = "error"
    /\ results # << >> /\ alerts # << >>
    /\ snapshot = None /\ posts = 0

\* The run is past the `if alerts:` block.
PastAlertBlock ==
    \/ pc = "write"
    \/ pc \in {"exit", "exited"} /\ ~UpstreamFailed

\* C8: notify_slack is called exactly when alerts is not empty after the
\* grid loop, with an alert row of minimum total_usd; when no combined total
\* (out_usd + ret_usd) is under THRESHOLD nothing is sent and the snapshot is
\* written with an empty alerts list and, as top5, the up to five cheapest
\* rows in ascending order of total_usd.
C8_NotifyIffAlerts ==
    /\ notified # None =>
          /\ pc \in {"write", "exit", "exited"}
          /\ notified \in Rows(alerts)
          /\ \A a \in Rows(alerts) : notified.total_usd <= a.total_usd
    /\ posts > 0 => notified # None
    /\ PastAlertBlock => (notified # None <=> alerts # << >>)
    /\ (pc = "exited" /\ ~UpstreamFailed
          /\ \A r \in Rows(results) : ~(r.out_usd + r.ret_usd < THRESHOLD)) =>
          /\ notified = None /\ posts = 0
          /\ snapshot # None
          /\ snapshot.alerts = << >>
          /\ LET top == snapshot.top5
             IN  /\ Len(top) = Min(5, Len(results))
                 /\ Rows(top) \subseteq Rows(results)
                 /\ \A i, j \in DOMAIN top : i < j => top[i].total_usd <= top[j].total_usd
                 /\ \A r \in Rows(results) \ Rows(top), t \in Rows(top) :
                        t.total_usd <= r.total_usd

\* A run that notified about the cheapest of several alert rows of different
\* totals, and (in another behaviour) a run of more than five rows, none
\* under the threshold: C8_Witness is the first, C8_WitnessQuiet the second.
C8_Witness ==
    /\ pc = "exited" /\ exc = "none"
    /\ notified # None /\ posts = 1
    /\ \E a \in Rows(alerts) : a.total_usd > notified.total_usd
    /\ Len(results) > Len(alerts)

C8_WitnessQuiet ==
    /\ pc = "exited" /\ exc = "none"
    /\ alerts = << >> /\ Len(results) > 5
    /\ snapshot # None /\ Len(snapshot.top5) = 5

\* C9: a completed run produces the same results, alerts and snapshot
\* content (the generation date apart) as the completed run before it, and
\* fetches the same keys, which it would not were the cache left over.
C9_RunsAgree ==
    (run >= 2 /\ pc = "exited" /\ outcome = "ok") =>
        /\ prev = Produced
        /\ prev.fetched = listCalls

\* A second run completed after a first one that had rows, alerts and
\* cached quotes, absent ones among them.
C9_Witness ==
    /\ run = 2 /\ pc = "exited" /\ outcome = "ok"
    /\ prev.results # << >> /\ prev.alerts # << >>
    /\ Len(prev.results) > Len(prev.alerts)
    /\ \E k \in DOMAIN one_way_cache : one_way_cache[k] = None

------------------------------------------------------------------------------
(* Properties of cheapest_offer, stated on the positions of the offer list  *)

\* a is a price not above b / strictly below b, as decimal strings compare.
PriceLE(a, b) == a.whole < b.whole \/ (a.whole = b.whole /\ a.frac <= b.frac)
PriceLT(a, b) == ~PriceLE(b, a)

StopsAt(i) == IF selOffers[i].segments = << >> THEN 0 ELSE Len(selOffers[i].segments) - 1

UsdIdx == { i \in DOMAIN selOffers : selOffers[i].total_currency = CURRENCY }
PreferredIdx == { i \in UsdIdx : StopsAt(i) <= MAX_STOPS_PREFERRED }
FallbackIdx == { i \in UsdIdx : StopsAt(i) <= MAX_STOPS_FALLBACK }

\* The three-tier policy.
TierIdx ==
    IF PreferredIdx # {} THEN PreferredIdx
    ELSE IF FallbackIdx # {} THEN FallbackIdx
    ELSE UsdIdx

\* The first position of the tier whose price no position of the tier beats.
WinnerIdx ==
    CHOOSE i \in TierIdx :
        /\ \A j \in TierIdx : PriceLE(selOffers[i].total_amount, selOffers[j].total_amount)
        /\ \A j \in TierIdx :
              j < i => PriceLT(selOffers[i].total_amount, selOffers[j].total_amount)

\* C3: for a list with an offer in the configured currency, cheapest_offer
\* returns the first offer, in list order, of minimum price within the tier
\* the stop-count policy selects, with that offer's id, price and stop count.
C3_CheapestOfTierFirstInOrder ==
    (selPc = "returned" /\ UsdIdx # {}) =>
        /\ selBest # None
        /\ selBest.offer = selOffers[WinnerIdx]
        /\ selBest.offer_id = selOffers[WinnerIdx].id
        /\ selBest.amount = float(selOffers[WinnerIdx].total_amount)
        /\ selBest.stops = StopsAt(WinnerIdx)

\* Stop counts {2, 2, 1}, the 1-stop offer dearer than both 2-stop offers,
\* which tie: the 1-stop offer is returned.
C3_Witness ==
    /\ selPc = "returned"
    /\ Len(selOffers) = 3 /\ UsdIdx = {1, 2, 3}
    /\ StopsAt(1) = 2 /\ StopsAt(2) = 2 /\ StopsAt(3) = 1
    /\ PriceLT(selOffers[1].total_amount, selOffers[3].total_amount)
    /\ selOffers[1].total_amount = selOffers[2].total_amount
    /\ selBest # None /\ selBest.offer_id = 3 /\ selBest.stops = 1

\* C4: cheapest_offer returns None exactly when no offer of the list has the
\* configured currency, whatever the stop counts.
C4_AbsentIffNoCurrencyMatch ==
    selPc = "returned" => (selBest = None <=> UsdIdx = {})

\* A list whose only offers in the configured currency have more stops than
\* the fallback allows still gives a quote.
C4_Witness ==
    /\ selPc = "returned"
    /\ UsdIdx # {} /\ FallbackIdx = {}
    /\ UsdIdx # DOMAIN selOffers
    /\ selBest # None /\ selBest.stops > MAX_STOPS_FALLBACK

====
